---- MODULE Spec2Model ----
(***************************************************************************)
(* Model of scripts/transcribe_faster_whisper.py: one run of main(), from  *)
(* the creation of the temporary directory to the exit of the process.     *)
(*                                                                         *)
(* The three collaborators (HTTP endpoint, ffmpeg, the whisper model) are  *)
(* the environment: each call either returns or raises an Exception with   *)
(* some diagnostic, and the model's lazy segment generator yields raw      *)
(* segments drawn from RawSegments, stops, or raises.  Only ordinary       *)
(* exceptions (subclasses of Exception) are modelled as stage failures.    *)
(*                                                                         *)
(* Times are integers (one unit = one tick of an arbitrary resolution);    *)
(* float(x) of a number is that number.  A text is a sequence of           *)
(* characters.  An optional value is None (<<>>) or Some(v) (<<v>>).       *)
(***************************************************************************)
EXTENDS Integers, Sequences, FiniteSets, TLC

VARIABLES
    pc,               \* position of main()
    temp_dir,         \* TRUE while the TemporaryDirectory exists on disk
    video_path,       \* TRUE while temp_dir/input_video exists
    audio_path,       \* TRUE while temp_dir/audio.wav exists
    calls,            \* stages invoked so far, in invocation order
    outcome,          \* per stage: "pending", "returned" or "raised"
    exc,              \* the exception a stage raised: None or Some(record)
    raw_seen,         \* raw segments the generator has yielded so far
    result_segments,  \* transcribe_audio's accumulator
    segments,         \* main's local `segments`: None until assigned
    exit_arg,         \* argument of the SystemExit in flight: None or Some(doc)
    stdout,           \* values written to standard output
    stderr,           \* values written to standard error
    exit_code         \* exit status of the process: None until it exits

vars == << pc, temp_dir, video_path, audio_path, calls, outcome, exc, raw_seen,
           result_segments, segments, exit_arg, stdout, stderr, exit_code >>

None == << >>
Some(v) == << v >>

\* the pipeline's stages, in the order main() calls them
Stages == << "download_file", "extract_audio", "transcribe_audio" >>
StageNames == { Stages[i] : i \in 1..Len(Stages) }

\* ---------------------------------------------------------------- bounds
MaxSegments == 2

\* ---------------------------------------------------------------- inputs
Whitespace == { " " }

\* texts a raw segment can carry: absent, empty, blank, and with content
\* surrounded by whitespace on either side, both sides, or inside
TextValues ==
    { None, Some(<< >>), Some(<< " " >>), Some(<< "a" >>),
      Some(<< " ", "a", " " >>), Some(<< "a", " ", "b" >>) }

\* start / end times a raw segment can carry: absent, negative, zero, positive
TimeValues == { None, Some(-1), Some(0), Some(1) }

RawSegments == [ text : TextValues, start : TimeValues, end : TimeValues ]

\* diagnostics; fileLeft says whether the failing call left its output file
DownloadErrors ==
    { [ message |-> "404 Client Error", fileLeft |-> FALSE ],
      [ message |-> "Connection broken", fileLeft |-> TRUE ] }

ExtractErrors ==
    { [ message |-> "No such file or directory: 'ffmpeg'", fileLeft |-> FALSE ],
      [ message |-> "('Failed to extract audio with ffmpeg', {...})", fileLeft |-> TRUE ],
      [ message |-> "('Failed to extract audio with ffmpeg', {...})", fileLeft |-> FALSE ] }

ModelErrors == { "Requested int8 compute type is not supported" }
TranscribeCallErrors == { "Invalid data found when processing input" }
GeneratorErrors == { "CUDA out of memory" }

\* ---------------------------------------------------------------- python helpers
\* str(exc)
Str(e) == e.message

\* `x or default` for an optional number: None and 0 are falsy
NumOr(x, default) == IF x = None \/ x = Some(0) THEN default ELSE x[1]

\* `x or default` for an optional string: None and "" are falsy
TextOr(x, default) == IF x = None \/ x = Some(<< >>) THEN default ELSE x[1]

\* float(x) of a number
Float(x) == x

Max(a, b) == IF a >= b THEN a ELSE b

RECURSIVE LStrip(_)
LStrip(s) ==
    IF s = << >> THEN << >>
    ELSE IF Head(s) \in Whitespace THEN LStrip(Tail(s)) ELSE s

RECURSIVE RStrip(_)
RStrip(s) ==
    IF s = << >> THEN << >>
    ELSE IF s[Len(s)] \in Whitespace THEN RStrip(SubSeq(s, 1, Len(s) - 1)) ELSE s

\* variant: str.lstrip() in place of str.strip()
Strip_LeftOnly(s) == LStrip(s)

\* str.strip()
Strip(s) == RStrip(LStrip(s))

\* ---------------------------------------------------------------- transcribe_audio
\* variant: duration = end - start, without max(0.0, ...)
LoopBody_NoClamp(acc, segment) ==
    LET text == Strip(TextOr(segment.text, << >>))
        start == Float(NumOr(segment.start, 0))
        end == Float(NumOr(segment.end, start))
        duration == end - start
    IN  IF text = << >>
        THEN acc
        ELSE Append(acc, [ text |-> text, start |-> start, duration |-> duration ])

\* one iteration of the for loop: the accumulator after `segment` is processed
LoopBody(acc, segment) ==
    LET text == Strip(TextOr(segment.text, << >>))
        start == Float(NumOr(segment.start, 0))
        end == Float(NumOr(segment.end, start))
        duration == Max(0, end - start)
    IN  IF text = << >>
        THEN acc
        ELSE Append(acc, [ text |-> text, start |-> start, duration |-> duration ])

\* ---------------------------------------------------------------- documents
\* variant: the error document also carries an empty segments list
ErrorDocument_WithSegments(category, e) ==
    [ error |-> category, details |-> Str(e), segments |-> << >> ]

\* json.dumps({"error": ..., "details": str(exc)})
ErrorDocument(category, e) == [ error |-> category, details |-> Str(e) ]

\* output = {"segments": segments}
SuccessDocument(segs) == [ segments |-> segs ]

\* ---------------------------------------------------------------- main
Init ==
    /\ pc = "start"
    /\ temp_dir = FALSE
    /\ video_path = FALSE
    /\ audio_path = FALSE
    /\ calls = << >>
    /\ outcome = [ s \in StageNames |-> "pending" ]
    /\ exc = None
    /\ raw_seen = << >>
    /\ result_segments = << >>
    /\ segments = None
    /\ exit_arg = None
    /\ stdout = << >>
    /\ stderr = << >>
    /\ exit_code = None

\* with tempfile.TemporaryDirectory(...) as temp_dir:
EnterWith ==
    /\ pc = "start"
    /\ temp_dir' = TRUE
    /\ pc' = "download"
    /\ UNCHANGED << video_path, audio_path, calls, outcome, exc, raw_seen,
                    result_segments, segments, exit_arg, stdout, stderr, exit_code >>

\* download_file(args.video_url, video_path) returns
DownloadOk ==
    /\ pc = "download"
    /\ calls' = Append(calls, "download_file")
    /\ video_path' = TRUE
    /\ outcome' = [ outcome EXCEPT !["download_file"] = "returned" ]
    /\ pc' = "extract"
    /\ UNCHANGED << temp_dir, audio_path, exc, raw_seen, result_segments,
                    segments, exit_arg, stdout, stderr, exit_code >>

\* download_file raises
DownloadRaise ==
    /\ pc = "download"
    /\ \E e \in DownloadErrors :
          /\ exc' = Some([ stage |-> "download_file", message |-> e.message ])
          /\ video_path' = e.fileLeft
    /\ calls' = Append(calls, "download_file")
    /\ outcome' = [ outcome EXCEPT !["download_file"] = "raised" ]
    /\ pc' = "except_download"
    /\ UNCHANGED << temp_dir, audio_path, raw_seen, result_segments,
                    segments, exit_arg, stdout, stderr, exit_code >>

\* raise SystemExit(doc): the exception starts to unwind the with block
RaiseSystemExit(doc) ==
    /\ exit_arg' = Some(doc)
    /\ pc' = "unwind"
    /\ UNCHANGED << temp_dir, video_path, audio_path, calls, outcome, exc,
                    raw_seen, result_segments, segments, stdout, stderr, exit_code >>

ExceptDownload ==
    /\ pc = "except_download"
    /\ RaiseSystemExit(ErrorDocument("Failed to download video", exc[1]))

\* extract_audio(video_path, audio_path, ...) returns
ExtractOk ==
    /\ pc = "extract"
    /\ calls' = Append(calls, "extract_audio")
    /\ audio_path' = TRUE
    /\ outcome' = [ outcome EXCEPT !["extract_audio"] = "returned" ]
    /\ pc' = "construct"
    /\ UNCHANGED << temp_dir, video_path, exc, raw_seen, result_segments,
                    segments, exit_arg, stdout, stderr, exit_code >>

\* extract_audio raises (subprocess.run fails, or ffmpeg exits non-zero)
ExtractRaise ==
    /\ pc = "extract"
    /\ \E e \in ExtractErrors :
          /\ exc' = Some([ stage |-> "extract_audio", message |-> e.message ])
          /\ audio_path' = e.fileLeft
    /\ calls' = Append(calls, "extract_audio")
    /\ outcome' = [ outcome EXCEPT !["extract_audio"] = "raised" ]
    /\ pc' = "except_extract"
    /\ UNCHANGED << temp_dir, video_path, raw_seen, result_segments,
                    segments, exit_arg, stdout, stderr, exit_code >>

\* variant: the handler swallows the exception and main goes on to transcribe
ExceptExtract_FallsThrough ==
    /\ pc = "except_extract"
    /\ pc' = "construct"
    /\ UNCHANGED << temp_dir, video_path, audio_path, calls, outcome, exc, raw_seen,
                    result_segments, segments, exit_arg, stdout, stderr, exit_code >>

ExceptExtract ==
    /\ pc = "except_extract"
    /\ RaiseSystemExit(ErrorDocument("Failed to extract audio", exc[1]))

\* a call inside transcribe_audio raises: the exception leaves the function
TranscribeRaise(message) ==
    /\ exc' = Some([ stage |-> "transcribe_audio", message |-> message ])
    /\ outcome' = [ outcome EXCEPT !["transcribe_audio"] = "raised" ]
    /\ pc' = "except_transcribe"

\* transcribe_audio is entered; WhisperModel(...) returns or raises
ConstructModel ==
    /\ pc = "construct"
    /\ calls' = Append(calls, "transcribe_audio")
    /\ \/ pc' = "transcribe" /\ UNCHANGED << exc, outcome >>
       \/ \E m \in ModelErrors : TranscribeRaise(m)
    /\ UNCHANGED << temp_dir, video_path, audio_path, raw_seen,
                    result_segments, segments, exit_arg, stdout, stderr, exit_code >>

\* segments, _ = model.transcribe(...): returns the lazy generator or raises
ModelTranscribe ==
    /\ pc = "transcribe"
    /\ \/ pc' = "loop" /\ UNCHANGED << exc, outcome >>
       \/ \E m \in TranscribeCallErrors : TranscribeRaise(m)
    /\ result_segments' = << >>
    /\ UNCHANGED << temp_dir, video_path, audio_path, calls, raw_seen,
                    segments, exit_arg, stdout, stderr, exit_code >>

\* for segment in segments: the generator yields one raw segment, the body runs
LoopIteration ==
    /\ pc = "loop"
    /\ Len(raw_seen) < MaxSegments
    /\ \E segment \in RawSegments :
          /\ raw_seen' = Append(raw_seen, segment)
          /\ result_segments' = LoopBody(result_segments, segment)
    /\ UNCHANGED << pc, temp_dir, video_path, audio_path, calls, outcome, exc,
                    segments, exit_arg, stdout, stderr, exit_code >>

\* the generator raises while the loop asks for the next segment
GeneratorRaise ==
    /\ pc = "loop"
    /\ \E m \in GeneratorErrors : TranscribeRaise(m)
    /\ UNCHANGED << temp_dir, video_path, audio_path, calls, raw_seen,
                    result_segments, segments, exit_arg, stdout, stderr, exit_code >>

\* variant: json.dump is indented into the with block, run right after the call
TranscribeReturn_EmitsInside ==
    /\ pc = "loop"
    /\ segments' = Some(result_segments)
    /\ outcome' = [ outcome EXCEPT !["transcribe_audio"] = "returned" ]
    /\ stdout' = Append(stdout, SuccessDocument(result_segments))
    /\ pc' = "leave"
    /\ UNCHANGED << temp_dir, video_path, audio_path, calls, exc, raw_seen,
                    result_segments, exit_arg, stderr, exit_code >>

\* the generator is exhausted: return result_segments, assigned to `segments`
TranscribeReturn ==
    /\ pc = "loop"
    /\ segments' = Some(result_segments)
    /\ outcome' = [ outcome EXCEPT !["transcribe_audio"] = "returned" ]
    /\ pc' = "leave"
    /\ UNCHANGED << temp_dir, video_path, audio_path, calls, exc, raw_seen,
                    result_segments, exit_arg, stdout, stderr, exit_code >>

\* variant: the handler reports the extraction category
ExceptTranscribe_WrongCategory ==
    /\ pc = "except_transcribe"
    /\ RaiseSystemExit(ErrorDocument("Failed to extract audio", exc[1]))

\* variant: the handler prints what was transcribed so far before it exits
ExceptTranscribe_EmitsPartial ==
    /\ pc = "except_transcribe"
    /\ stdout' = Append(stdout, SuccessDocument(result_segments))
    /\ exit_arg' = Some(ErrorDocument("Transcription failed", exc[1]))
    /\ pc' = "unwind"
    /\ UNCHANGED << temp_dir, video_path, audio_path, calls, outcome, exc,
                    raw_seen, result_segments, segments, stderr, exit_code >>

ExceptTranscribe ==
    /\ pc = "except_transcribe"
    /\ RaiseSystemExit(ErrorDocument("Transcription failed", exc[1]))

\* variant: the directory is removed by a call at the end of the block, which
\* an exception skips
ExitWith_KeepsOnError ==
    /\ pc \in { "leave", "unwind" }
    /\ temp_dir' = (pc = "unwind" /\ temp_dir)
    /\ video_path' = (pc = "unwind" /\ video_path)
    /\ audio_path' = (pc = "unwind" /\ audio_path)
    /\ pc' = IF pc = "leave" THEN "emit" ELSE "exiting"
    /\ UNCHANGED << calls, outcome, exc, raw_seen, result_segments, segments,
                    exit_arg, stdout, stderr, exit_code >>

\* TemporaryDirectory.__exit__: runs when the block is left, normally or by an
\* exception, and removes the directory with everything in it
ExitWith ==
    /\ pc \in { "leave", "unwind" }
    /\ temp_dir' = FALSE
    /\ video_path' = FALSE
    /\ audio_path' = FALSE
    /\ pc' = IF pc = "leave" THEN "emit" ELSE "exiting"
    /\ UNCHANGED << calls, outcome, exc, raw_seen, result_segments, segments,
                    exit_arg, stdout, stderr, exit_code >>

\* json.dump(output, sys.stdout, ensure_ascii=False); main returns
EmitSuccess ==
    /\ pc = "emit"
    /\ stdout' = Append(stdout, SuccessDocument(segments[1]))
    /\ pc' = "exiting"
    /\ UNCHANGED << temp_dir, video_path, audio_path, calls, outcome, exc,
                    raw_seen, result_segments, segments, exit_arg, stderr, exit_code >>

\* variant: the message is printed and the process exits with status 0
InterpreterExit_AlwaysZero ==
    /\ pc = "exiting"
    /\ exit_code' = Some(0)
    /\ stderr' = IF exit_arg = None THEN stderr ELSE Append(stderr, exit_arg[1])
    /\ pc' = "done"
    /\ UNCHANGED << temp_dir, video_path, audio_path, calls, outcome, exc,
                    raw_seen, result_segments, segments, exit_arg, stdout >>

\* the interpreter ends the process: an uncaught SystemExit whose argument is a
\* string prints it to standard error and exits with status 1; otherwise 0
InterpreterExit ==
    /\ pc = "exiting"
    /\ IF exit_arg = None
       THEN /\ exit_code' = Some(0)
            /\ stderr' = stderr
       ELSE /\ exit_code' = Some(1)
            /\ stderr' = Append(stderr, exit_arg[1])
    /\ pc' = "done"
    /\ UNCHANGED << temp_dir, video_path, audio_path, calls, outcome, exc,
                    raw_seen, result_segments, segments, exit_arg, stdout >>

Next ==
    \/ EnterWith
    \/ DownloadOk
    \/ DownloadRaise
    \/ ExceptDownload
    \/ ExtractOk
    \/ ExtractRaise
    \/ ExceptExtract
    \/ ConstructModel
    \/ ModelTranscribe
    \/ LoopIteration
    \/ GeneratorRaise
    \/ TranscribeReturn
    \/ ExceptTranscribe
    \/ ExitWith
    \/ EmitSuccess
    \/ InterpreterExit

Spec == Init /\ [][Next]_vars

\* ---------------------------------------------------------------- properties
Failed(s) == outcome[s] = "raised"
Returned(s) == outcome[s] = "returned"
Invoked(s) == \E i \in 1..Len(calls) : calls[i] = s
FailedStages == { s \in StageNames : Failed(s) }

\* every document the run has written, on either stream
Emitted == stdout \o stderr
Keys(doc) == DOMAIN doc

\* a text with no content: absent, or made of whitespace only
Blank(t) == t = None \/ \A i \in 1..Len(t[1]) : t[1][i] \in Whitespace
HasContent(r) == ~Blank(r.text)

\* C1: the stages are invoked in the order download_file, extract_audio,
\* transcribe_audio, each at most once, and a stage is invoked only if every
\* earlier stage returned without failure; after a download failure neither
\* ffmpeg nor the model is invoked, after an extraction failure the model is not.
C1_StagesInOrder ==
    /\ \E n \in 0..Len(Stages) : calls = SubSeq(Stages, 1, n)
    /\ \A i \in 1..Len(calls) : \A j \in 1..(i - 1) : Returned(calls[j])
    /\ Failed("download_file") =>
          ~Invoked("extract_audio") /\ ~Invoked("transcribe_audio")
    /\ Failed("extract_audio") => ~Invoked("transcribe_audio")

C1_Witness ==
    /\ pc = "done"
    /\ Failed("extract_audio")
    /\ calls = << "download_file", "extract_audio" >>

\* C2: the error document of a failed run names the first and only stage that
\* failed, and its details are that stage's diagnostic.
C2_CategoryNamesFailedStage ==
    /\ Cardinality(FailedStages) <= 1
    /\ (pc = "done" /\ FailedStages # { }) => stderr # << >>
    /\ \A i \in 1..Len(Emitted) :
          LET doc == Emitted[i] IN
          "error" \in Keys(doc) =>
             /\ doc.error = "Failed to download video" <=> Failed("download_file")
             /\ doc.error = "Failed to extract audio" <=>
                   Returned("download_file") /\ Failed("extract_audio")
             /\ doc.error = "Transcription failed" <=>
                   /\ Returned("download_file")
                   /\ Returned("extract_audio")
                   /\ Failed("transcribe_audio")
             /\ exc # None
             /\ Failed(exc[1].stage)
             /\ doc.details = exc[1].message

C2_Witness ==
    /\ pc = "done"
    /\ Failed("transcribe_audio")
    /\ raw_seen = << >>
    /\ stderr = << [ error |-> "Transcription failed",
                     details |-> "Requested int8 compute type is not supported" ] >>

\* C3: a run emits exactly one result document; a successful run's document
\* has the single key segments, a failed run's has exactly error and details.
C3_OneDocumentOfOneShape ==
    /\ Len(Emitted) <= 1
    /\ \A i \in 1..Len(Emitted) :
          \/ Keys(Emitted[i]) = { "segments" } /\ FailedStages = { }
          \/ Keys(Emitted[i]) = { "error", "details" } /\ FailedStages # { }
    /\ pc = "done" => Len(Emitted) = 1

C3_Witness ==
    /\ pc = "done"
    /\ FailedStages = { }
    /\ Len(stdout) = 1
    /\ Len(stdout[1].segments) = MaxSegments

\* C4: once the run has terminated the scratch directory and its contents no
\* longer exist, on every exit path.
C4_ScratchRemoved ==
    pc = "done" => ~temp_dir /\ ~video_path /\ ~audio_path

C4_Witness ==
    /\ pc = "done"
    /\ Failed("transcribe_audio")
    /\ raw_seen # << >>
    /\ ~temp_dir

\* the segments of the documents written to standard output
RECURSIVE EmittedSegments(_)
EmittedSegments(docs) ==
    IF docs = << >> THEN << >>
    ELSE (IF "segments" \in Keys(Head(docs)) THEN Head(docs).segments ELSE << >>)
            \o EmittedSegments(Tail(docs))

\* C5 as stated: every emitted segment has duration >= 0 and start >= 0,
\* whatever the model reports.
C5_Original ==
    \A i \in 1..Len(EmittedSegments(Emitted)) :
       LET s == EmittedSegments(Emitted)[i] IN s.duration >= 0 /\ s.start >= 0

\* C5 amended: every emitted segment has duration >= 0, and start >= 0 unless
\* the model reported a negative start for that segment.
C5_DurationAndStart ==
    LET out == EmittedSegments(Emitted)
        kept == SelectSeq(raw_seen, HasContent)
    IN  out # << >> =>
           /\ Len(out) = Len(kept)
           /\ \A i \in 1..Len(out) :
                 /\ out[i].duration >= 0
                 /\ (kept[i].start = None \/ kept[i].start[1] >= 0) => out[i].start >= 0

C5_Witness ==
    /\ Len(stdout) = 1
    /\ Len(raw_seen) = 2
    /\ raw_seen[1] = [ text |-> Some(<< "a" >>), start |-> Some(1), end |-> Some(-1) ]
    /\ raw_seen[2] = [ text |-> Some(<< "a" >>), start |-> None, end |-> Some(1) ]
    /\ stdout[1].segments[1].duration = 0
    /\ stdout[1].segments[2].start = 0

\* C6: every segment transcribe_audio returns has non-empty text equal to its
\* own trimmed form, and a raw segment whose text is absent, empty or blank
\* has no counterpart in the result.
C6_TextTrimmedNonEmpty ==
    segments # None =>
       /\ \A i \in 1..Len(segments[1]) :
             /\ segments[1][i].text # << >>
             /\ segments[1][i].text = Strip(segments[1][i].text)
             /\ segments[1][i].text[1] \notin Whitespace
             /\ segments[1][i].text[Len(segments[1][i].text)] \notin Whitespace
       /\ Len(segments[1]) = Len(SelectSeq(raw_seen, HasContent))

C6_Witness ==
    /\ segments # None
    /\ Len(raw_seen) = 2
    /\ raw_seen[1].text = Some(<< " " >>)
    /\ raw_seen[2].text = Some(<< " ", "a", " " >>)
    /\ Len(segments[1]) = 1
    /\ segments[1][1].text = << "a" >>

\* the transformation C7 describes, of one raw segment
Reference(r) ==
    LET start == IF r.start = None THEN 0 ELSE r.start[1]
        end == IF r.end = None THEN start ELSE r.end[1]
    IN  [ text |-> Strip(r.text[1]),
          start |-> start,
          duration |-> IF end - start >= 0 THEN end - start ELSE 0 ]

RECURSIVE ReferenceAll(_)
ReferenceAll(raws) ==
    IF raws = << >> THEN << >>
    ELSE (IF HasContent(Head(raws)) THEN << Reference(Head(raws)) >> ELSE << >>)
            \o ReferenceAll(Tail(raws))

\* C7: the result of transcribe_audio is the raw segments with content, in
\* emission order, each mapped to {trimmed text, reported start (0 if absent),
\* max(0, end - start) with an absent end equal to start}.
C7_Original ==
    segments # None => segments[1] = ReferenceAll(raw_seen)

\* C8: the exit status is 0 exactly when all three stages succeeded and the
\* success document went to standard output; a failure ends the process with a
\* non-zero status, the error document as its message, nothing on stdout.
C8_ExitStatus ==
    pc = "done" =>
       /\ exit_code # None
       /\ exit_code = Some(0) <=>
             /\ \A s \in StageNames : Returned(s)
             /\ stdout = << [ segments |-> segments[1] ] >>
       /\ FailedStages # { } =>
             /\ exit_code[1] # 0
             /\ stdout = << >>
             /\ Len(stderr) = 1
             /\ Keys(stderr[1]) = { "error", "details" }
       /\ FailedStages = { } => stderr = << >>

C8_Witness ==
    /\ pc = "done"
    /\ Failed("download_file")
    /\ exit_code = Some(1)
    /\ stdout = << >>

\* C9: when the generator fails after segments were already converted, none of
\* them is emitted: the run ends with the transcription error document only.
C9_NoPartialResult ==
    Failed("transcribe_audio") =>
       /\ segments = None
       /\ stdout = << >>
       /\ EmittedSegments(Emitted) = << >>
       /\ pc = "done" =>
             stderr = << [ error |-> "Transcription failed",
                           details |-> exc[1].message ] >>

C9_Witness ==
    /\ pc = "done"
    /\ Failed("transcribe_audio")
    /\ Len(result_segments) = MaxSegments
    /\ Len(stderr) = 1

\* C10: a result document is written only after the scratch directory has been
\* deleted: in the state in which a write to either stream happens the with
\* block has been left and the directory and both files are gone.
C10_CleanupBeforeEmission ==
    [][ (stdout' # stdout \/ stderr' # stderr) =>
           /\ ~temp_dir /\ ~video_path /\ ~audio_path
           /\ pc \in { "emit", "exiting" } ]_vars

C10_Witness ==
    /\ pc = "exiting"
    /\ stdout # << >>
    /\ ~temp_dir
    /\ calls = Stages

====
